---- MODULE Spec2Model ----
(***************************************************************************)
(* FirestoreKG (src/databases/firestore_kg.py): a knowledge graph kept in  *)
(* two document collections.  Every node document carries its own         *)
(* adjacency (edges_to, edges_from); every edge is a document of the edge  *)
(* collection keyed by source_uid ++ "_to_" ++ target_uid.  No operation   *)
(* is transactional: each one is a sequence of whole-document reads and    *)
(* writes.                                                                 *)
(*                                                                         *)
(* A uid is a sequence of characters.  An adjacency list is modelled as    *)
(* the set of its members: add_node only stores empty lists, add_edge and  *)
(* update_edge rebuild a list with list(set(..) | {..}), and remove_edge / *)
(* remove_node only take members out, so a stored list never holds a uid   *)
(* twice and its order is never read.  update_node stores the lists of its *)
(* caller as they are; the callers of this model supply lists without      *)
(* repetition.                                                             *)
(***************************************************************************)
EXTENDS Integers, Sequences, FiniteSets, TLC

\* The uids the operations are called with.
Uids == {<<"A">>, <<"B">>, <<"C">>}

\* The attribute bag add_node is called with (node_title, node_description,
\* ...), as one value.
NewAttrs == {"a1"}

\* The adjacency lists a caller puts in a NodeData: empty, or one uid.
AdjInputs == {{}, {<<"A">>}}

\* EdgeData.description.
Descriptions == {"d1"}

\* The number of calls made in one run of the sequential specifications.
MaxCalls == 7

\* The callers that run add_edge side by side.
Procs == {"p1", "p2"}

\* A caller that has not called yet.
Idle == [pc |-> "idle"]

OK == "OK"
KeyError == "KeyError"
ValueError == "ValueError"
WrappedException == "Exception"

VARIABLES
    nodes,   \* the node collection: uid -> node document
    edges,   \* the edge collection: edge_uid -> edge document
    pre,     \* both collections as they were when the last call started
    last,    \* the last call: operation, arguments, exception raised (or OK)
    calls,   \* the number of calls made so far
    procs    \* the add_edge calls running side by side, each at its own step

vars == <<nodes, edges, pre, last, calls, procs>>

----------------------------------------------------------------------------
\* Document store primitives

\* doc_ref.set(doc)
DocSet(coll, key, doc) == [k \in DOMAIN coll \cup {key} |-> IF k = key THEN doc ELSE coll[k]]

\* doc_ref.delete(): deleting an absent document is no error
DocDelete(coll, key) == [k \in DOMAIN coll \ {key} |-> coll[k]]

\* the two uids with nothing between them
_generate_edge_uid_NoDelimiter(source_uid, target_uid) == source_uid \o target_uid

\* f"{source_uid}_to_{target_uid}"
_generate_edge_uid(source_uid, target_uid) == source_uid \o <<"_", "t", "o", "_">> \o target_uid

\* A NodeData as a caller of add_node / update_node may supply it.
NodeData(attr, edges_to, edges_from) ==
    [attr |-> attr, edges_to |-> edges_to, edges_from |-> edges_from]

\* The result of a call: the two collections and the exception it ended with.
Result(n, e, err) == [nodes |-> n, edges |-> e, err |-> err]

node_exist(n, node_uid) == node_uid \in DOMAIN n

edge_exist(e, source_uid, target_uid) == _generate_edge_uid(source_uid, target_uid) \in DOMAIN e

\* edge_doc_ref.set(edge_data_dict)
_update_egde_coll(e, source_uid, target_uid, description, directed) ==
    DocSet(e, _generate_edge_uid(source_uid, target_uid),
           [edge_uid |-> _generate_edge_uid(source_uid, target_uid),
            source_uid |-> source_uid,
            target_uid |-> target_uid,
            description |-> description,
            directed |-> directed])

\* the reverse record written under the forward id
ReverseEdgeColl_NotSwapped(e, source_uid, target_uid, description, directed) ==
    _update_egde_coll(e, source_uid, target_uid, description, directed)

\* add_edge's reverse record: _update_egde_coll with source and target swapped
ReverseEdgeColl(e, source_uid, target_uid, description, directed) ==
    _update_egde_coll(e, target_uid, source_uid, description, directed)

_delete_from_edge_coll(e, edge_uid) == DocDelete(e, edge_uid)

\* update_node with the write left out
update_node_NoWrite(n, node_uid, node_data) == n

\* update_node on an existing node, doc_ref.update(node_data.__dict__): every
\* field of the stored document is replaced by the caller's copy.
update_node(n, node_uid, node_data) == [n EXCEPT ![node_uid] = node_data]

\* list(set(adjacency) ^ {uid})
AdjAdd_Xor(adjacency, uid) == (adjacency \ {uid}) \cup ({uid} \ adjacency)

\* the list replaced by the one uid
AdjAdd_Replace(adj, uid) == {uid}

\* list(set(adjacency) | {uid})
AdjAdd(adjacency, uid) == adjacency \cup {uid}

\* the list with nothing removed
AdjRemove_Kept(adjacency, uid) == adjacency

\* adjacency.remove(uid), uid being in the list
AdjRemove(adjacency, uid) == adjacency \ {uid}

----------------------------------------------------------------------------
\* add_node storing the caller's adjacency lists as they come
add_node_NoAdjacencyCheck(n, e, node_uid, node_data) ==
    IF node_exist(n, node_uid) THEN Result(n, e, ValueError)
    ELSE Result(DocSet(n, node_uid, node_data), e, OK)

add_node(n, e, node_uid, node_data) ==
    IF node_exist(n, node_uid) THEN Result(n, e, ValueError)
    ELSE IF node_data.edges_to # {} \/ node_data.edges_from # {} THEN Result(n, e, ValueError)
    ELSE Result(DocSet(n, node_uid, node_data), e, OK)

\* add_edge writing the edge record before it looks for the two nodes
add_edge_RecordBeforeCheck(n, e, source_uid, target_uid, description, directed) ==
    Result(n, _update_egde_coll(e, source_uid, target_uid, description, directed), KeyError)

\* add_edge, run to completion with nothing else running.  source0 and
\* target0 are the two copies read before the first write; every write stores
\* one of the copies whole.
add_edge(n, e, source_uid, target_uid, description, directed) ==
    IF ~node_exist(n, source_uid) \/ ~node_exist(n, target_uid) THEN Result(n, e, KeyError)
    ELSE
    LET source0 == n[source_uid]
        target0 == n[target_uid]
        source1 == [source0 EXCEPT !.edges_to = AdjAdd(@, target_uid)]
        n1 == update_node(n, source_uid, source1)
        target1 == [target0 EXCEPT !.edges_from = AdjAdd(@, source_uid)]
        n2 == update_node(n1, target_uid, target1)
        e1 == _update_egde_coll(e, source_uid, target_uid, description, directed)
        target2 == [target1 EXCEPT !.edges_to = AdjAdd(@, source_uid)]
        n3 == update_node(n2, target_uid, target2)
        source2 == [source1 EXCEPT !.edges_from = AdjAdd(@, target_uid)]
        n4 == update_node(n3, source_uid, source2)
        e2 == ReverseEdgeColl(e1, source_uid, target_uid, description, directed)
    IN  IF directed THEN Result(n2, e1, OK) ELSE Result(n4, e2, OK)

\* update_edge: the edge record first, then each endpoint read afresh
update_edge(n, e, source_uid, target_uid, description, directed) ==
    IF ~edge_exist(e, source_uid, target_uid) THEN Result(n, e, KeyError)
    ELSE
    LET e1 == _update_egde_coll(e, source_uid, target_uid, description, directed)
    IN  IF ~node_exist(n, source_uid) THEN Result(n, e1, WrappedException)
        ELSE
        LET source0 == n[source_uid]
            n1 == IF target_uid \notin source0.edges_to
                  THEN update_node(n, source_uid,
                                   [source0 EXCEPT !.edges_to = AdjAdd(@, target_uid)])
                  ELSE n
        IN  IF ~node_exist(n1, target_uid) THEN Result(n1, e1, WrappedException)
            ELSE
            LET target0 == n1[target_uid]
                n2 == IF source_uid \notin target0.edges_from
                      THEN update_node(n1, target_uid,
                                       [target0 EXCEPT !.edges_from = AdjAdd(@, source_uid)])
                      ELSE n1
            IN  Result(n2, e1, OK)

\* remove_edge deleting the edge record before any entry of a node
remove_edge_RecordFirst(n, e, source_uid, target_uid) ==
    Result(n, _delete_from_edge_coll(e, _generate_edge_uid(source_uid, target_uid)),
           ValueError)

\* remove_edge, run to completion with nothing else running
remove_edge(n, e, source_uid, target_uid) ==
    IF ~edge_exist(e, source_uid, target_uid) THEN Result(n, e, WrappedException)
    ELSE IF ~node_exist(n, source_uid) \/ ~node_exist(n, target_uid)
    THEN Result(n, e, WrappedException)
    ELSE
    LET edge_data == e[_generate_edge_uid(source_uid, target_uid)]
        source0 == n[source_uid]
        target0 == n[target_uid]
        source1 == [source0 EXCEPT !.edges_to = AdjRemove(@, target_uid)]
        n1 == update_node(n, source_uid, source1)
        target1 == [target0 EXCEPT !.edges_from = AdjRemove(@, source_uid)]
        n2 == update_node(n1, target_uid, target1)
        e1 == _delete_from_edge_coll(e, _generate_edge_uid(source_uid, target_uid))
        source2 == [source1 EXCEPT !.edges_from = AdjRemove(@, target_uid)]
        n3 == update_node(n2, source_uid, source2)
        target2 == [target1 EXCEPT !.edges_to = AdjRemove(@, source_uid)]
        n4 == update_node(n3, target_uid, target2)
        e2 == _delete_from_edge_coll(e1, _generate_edge_uid(target_uid, source_uid))
    IN  IF target_uid \notin source0.edges_to THEN Result(n, e, ValueError)
        ELSE IF source_uid \notin target0.edges_from THEN Result(n1, e, ValueError)
        ELSE IF edge_data.directed THEN Result(n2, e1, OK)
        ELSE IF target_uid \notin source1.edges_from THEN Result(n2, e1, ValueError)
        ELSE IF source_uid \notin target1.edges_to THEN Result(n3, e1, ValueError)
        ELSE Result(n4, e2, OK)

\* remove_node, step 2: for every uid of node_data.edges_from that still has a
\* document, read it, drop node_uid from its edges_to, write it back
RECURSIVE StripEdgesTo(_, _, _)
StripEdgesTo(n, others, node_uid) ==
    IF others = {} THEN n
    ELSE LET other == CHOOSE o \in others : TRUE
         IN  StripEdgesTo(
                 IF node_exist(n, other)
                 THEN update_node(n, other,
                          [n[other] EXCEPT !.edges_to = {edge \in @ : edge # node_uid}])
                 ELSE n,
                 others \ {other}, node_uid)

\* remove_node with step 3 left out
StripEdgesFrom_Skipped(n, others, node_uid) == n

\* remove_node, step 3: the same over node_data.edges_to and edges_from
RECURSIVE StripEdgesFrom(_, _, _)
StripEdgesFrom(n, others, node_uid) ==
    IF others = {} THEN n
    ELSE LET other == CHOOSE o \in others : TRUE
         IN  StripEdgesFrom(
                 IF node_exist(n, other)
                 THEN update_node(n, other,
                          [n[other] EXCEPT !.edges_from = {edge \in @ : edge # node_uid}])
                 ELSE n,
                 others \ {other}, node_uid)

\* remove_node as it would be with the edge records of the node deleted too
remove_node_WithEdgeRecords(n, e, node_uid) ==
    IF ~node_exist(n, node_uid) THEN Result(n, e, KeyError)
    ELSE
    LET node_data == n[node_uid]
        n1 == StripEdgesTo(n, node_data.edges_from, node_uid)
        n2 == StripEdgesFrom(n1, node_data.edges_to, node_uid)
    IN  Result(DocDelete(n2, node_uid),
               [k \in {i \in DOMAIN e : e[i].source_uid # node_uid /\ e[i].target_uid # node_uid}
                   |-> e[k]],
               OK)

\* remove_node with the KeyError of a missing neighbour not caught
remove_node_KeyErrorRaised(n, e, node_uid) ==
    IF ~node_exist(n, node_uid) THEN Result(n, e, KeyError)
    ELSE
    LET node_data == n[node_uid]
        n1 == StripEdgesTo(n, node_data.edges_from, node_uid)
        n2 == StripEdgesFrom(n1, node_data.edges_to, node_uid)
    IN  IF \E u \in node_data.edges_from \cup node_data.edges_to : ~node_exist(n, u)
        THEN Result(n, e, KeyError)
        ELSE Result(DocDelete(n2, node_uid), e, OK)

\* remove_node: the edge collection is not touched
remove_node(n, e, node_uid) ==
    IF ~node_exist(n, node_uid) THEN Result(n, e, KeyError)
    ELSE
    LET node_data == n[node_uid]
        n1 == StripEdgesTo(n, node_data.edges_from, node_uid)
        n2 == StripEdgesFrom(n1, node_data.edges_to, node_uid)
    IN  Result(DocDelete(n2, node_uid), e, OK)

\* the scan with edges_from not counted
ZeroDegreeNodes_OutOnly(n) == {u \in DOMAIN n : Cardinality(n[u].edges_to) = 0}

\* clean_zerodegree_nodes, step 1: the uids whose two lists are both empty
ZeroDegreeNodes(n) ==
    {u \in DOMAIN n : Cardinality(n[u].edges_to) + Cardinality(n[u].edges_from) = 0}

\* clean_zerodegree_nodes, step 2: remove_node for each uid found
RECURSIVE RemoveAll(_, _, _)
RemoveAll(n, e, nodes_to_remove) ==
    IF nodes_to_remove = {} THEN Result(n, e, OK)
    ELSE LET node_uid == CHOOSE u \in nodes_to_remove : TRUE
             r == remove_node(n, e, node_uid)
         IN  IF r.err # OK THEN r
             ELSE RemoveAll(r.nodes, r.edges, nodes_to_remove \ {node_uid})

clean_zerodegree_nodes(n, e) == RemoveAll(n, e, ZeroDegreeNodes(n))

----------------------------------------------------------------------------
Init ==
    /\ nodes = <<>>
    /\ edges = <<>>
    /\ pre = [nodes |-> <<>>, edges |-> <<>>]
    /\ last = [op |-> "init", err |-> OK]
    /\ calls = 0
    /\ procs = [p \in Procs |-> Idle]

\* One call, from its start to its return or its exception.
Finish(r, call) ==
    /\ calls < MaxCalls
    /\ calls' = calls + 1
    /\ nodes' = r.nodes
    /\ edges' = r.edges
    /\ pre' = [nodes |-> nodes, edges |-> edges]
    /\ last' = [call EXCEPT !.err = r.err]
    /\ UNCHANGED procs

DoAddNode ==
    \E u \in Uids, a \in NewAttrs, to \in AdjInputs, from \in AdjInputs :
        Finish(add_node(nodes, edges, u, NodeData(a, to, from)),
               [op |-> "add_node", node_uid |-> u, err |-> OK])

DoAddEdge ==
    \E s \in Uids, t \in Uids, d \in Descriptions, dir \in BOOLEAN :
        Finish(add_edge(nodes, edges, s, t, d, dir),
               [op |-> "add_edge", source_uid |-> s, target_uid |-> t,
                description |-> d, directed |-> dir, err |-> OK])

DoUpdateEdge ==
    \E s \in Uids, t \in Uids, d \in Descriptions, dir \in BOOLEAN :
        Finish(update_edge(nodes, edges, s, t, d, dir),
               [op |-> "update_edge", source_uid |-> s, target_uid |-> t,
                description |-> d, directed |-> dir, err |-> OK])

DoRemoveEdge ==
    \E s \in Uids, t \in Uids :
        Finish(remove_edge(nodes, edges, s, t),
               [op |-> "remove_edge", source_uid |-> s, target_uid |-> t, err |-> OK])

DoRemoveNode ==
    \E u \in Uids :
        Finish(remove_node(nodes, edges, u),
               [op |-> "remove_node", node_uid |-> u, err |-> OK])

DoCleanZeroDegreeNodes ==
    Finish(clean_zerodegree_nodes(nodes, edges),
           [op |-> "clean_zerodegree_nodes", err |-> OK])

\* add_node, add_edge and remove_edge only
NextEdges == DoAddNode \/ DoAddEdge \/ DoRemoveEdge

SpecEdges == Init /\ [][NextEdges]_vars

\* add_node, add_edge, remove_edge and remove_node
NextNodes == DoAddNode \/ DoAddEdge \/ DoRemoveEdge \/ DoRemoveNode

SpecNodes == Init /\ [][NextNodes]_vars

\* every operation on nodes and edges but update_node
NextSeq ==
    \/ DoAddNode
    \/ DoAddEdge
    \/ DoUpdateEdge
    \/ DoRemoveEdge
    \/ DoRemoveNode
    \/ DoCleanZeroDegreeNodes

SpecSeq == Init /\ [][NextSeq]_vars

----------------------------------------------------------------------------
\* add_edge step by step: every read and every write of the store is one step,
\* and the steps of the callers interleave.  A caller keeps the two copies it
\* read (source_node_data, target_node_data) and writes them back whole.

\* A copy not read yet.
NoData == [attr |-> "none", edges_to |-> {}, edges_from |-> {}]

Raise(p, err) == procs' = [procs EXCEPT ![p].pc = "raised", ![p].err = err]

Goto(p, pc) == procs' = [procs EXCEPT ![p].pc = pc]

\* The nodes exist before the callers start.
RaceAddNode ==
    /\ \A p \in Procs : procs[p].pc = "idle"
    /\ \E u \in Uids, a \in NewAttrs :
        /\ add_node(nodes, edges, u, NodeData(a, {}, {})).err = OK
        /\ nodes' = add_node(nodes, edges, u, NodeData(a, {}, {})).nodes
    /\ UNCHANGED <<edges, pre, last, calls, procs>>

Begin(p) ==
    /\ procs[p].pc = "idle"
    /\ \E s \in Uids, t \in Uids, d \in Descriptions, dir \in BOOLEAN :
        procs' = [procs EXCEPT ![p] =
                    [pc |-> "check_source", source_uid |-> s, target_uid |-> t,
                     description |-> d, directed |-> dir,
                     source_node_data |-> NoData, target_node_data |-> NoData,
                     err |-> OK]]
    /\ UNCHANGED <<nodes, edges, pre, last, calls>>

\* if not self.get_node(edge_data.source_uid)
CheckSource(p) ==
    /\ procs[p].pc = "check_source"
    /\ IF node_exist(nodes, procs[p].source_uid) THEN Goto(p, "check_target")
       ELSE Raise(p, KeyError)
    /\ UNCHANGED <<nodes, edges, pre, last, calls>>

\* if not self.get_node(edge_data.target_uid)
CheckTarget(p) ==
    /\ procs[p].pc = "check_target"
    /\ IF node_exist(nodes, procs[p].target_uid) THEN Goto(p, "read_source")
       ELSE Raise(p, KeyError)
    /\ UNCHANGED <<nodes, edges, pre, last, calls>>

\* source_node_data = self.get_node(edge_data.source_uid)
ReadSource(p) ==
    /\ procs[p].pc = "read_source"
    /\ IF node_exist(nodes, procs[p].source_uid)
       THEN procs' = [procs EXCEPT ![p].pc = "read_target",
                                   ![p].source_node_data = nodes[procs[p].source_uid]]
       ELSE Raise(p, KeyError)
    /\ UNCHANGED <<nodes, edges, pre, last, calls>>

\* target_node_data = self.get_node(edge_data.target_uid)
ReadTarget(p) ==
    /\ procs[p].pc = "read_target"
    /\ IF node_exist(nodes, procs[p].target_uid)
       THEN procs' = [procs EXCEPT ![p].pc = "write_source_to",
                                   ![p].target_node_data = nodes[procs[p].target_uid]]
       ELSE Raise(p, KeyError)
    /\ UNCHANGED <<nodes, edges, pre, last, calls>>

\* source_node_data.edges_to = ...; self.update_node(source_uid, source_node_data)
WriteSourceTo(p) ==
    /\ procs[p].pc = "write_source_to"
    /\ LET copy == [procs[p].source_node_data EXCEPT
                        !.edges_to = AdjAdd(@, procs[p].target_uid)]
       IN  IF node_exist(nodes, procs[p].source_uid)
           THEN /\ nodes' = update_node(nodes, procs[p].source_uid, copy)
                /\ procs' = [procs EXCEPT ![p].pc = "write_target_from",
                                          ![p].source_node_data = copy]
           ELSE /\ Raise(p, KeyError)
                /\ UNCHANGED nodes
    /\ UNCHANGED <<edges, pre, last, calls>>

\* target_node_data.edges_from = ...; self.update_node(target_uid, target_node_data)
WriteTargetFrom(p) ==
    /\ procs[p].pc = "write_target_from"
    /\ LET copy == [procs[p].target_node_data EXCEPT
                        !.edges_from = AdjAdd(@, procs[p].source_uid)]
       IN  IF node_exist(nodes, procs[p].target_uid)
           THEN /\ nodes' = update_node(nodes, procs[p].target_uid, copy)
                /\ procs' = [procs EXCEPT ![p].pc = "write_edge",
                                          ![p].target_node_data = copy]
           ELSE /\ Raise(p, KeyError)
                /\ UNCHANGED nodes
    /\ UNCHANGED <<edges, pre, last, calls>>

\* self._update_egde_coll(edge_uid, ...)
WriteEdge(p) ==
    /\ procs[p].pc = "write_edge"
    /\ edges' = _update_egde_coll(edges, procs[p].source_uid, procs[p].target_uid,
                                  procs[p].description, procs[p].directed)
    /\ Goto(p, IF procs[p].directed THEN "done" ELSE "write_target_to")
    /\ UNCHANGED <<nodes, pre, last, calls>>

\* target_node_data.edges_to = ...; self.update_node(target_uid, target_node_data)
WriteTargetTo(p) ==
    /\ procs[p].pc = "write_target_to"
    /\ LET copy == [procs[p].target_node_data EXCEPT
                        !.edges_to = AdjAdd(@, procs[p].source_uid)]
       IN  IF node_exist(nodes, procs[p].target_uid)
           THEN /\ nodes' = update_node(nodes, procs[p].target_uid, copy)
                /\ procs' = [procs EXCEPT ![p].pc = "write_source_from",
                                          ![p].target_node_data = copy]
           ELSE /\ Raise(p, KeyError)
                /\ UNCHANGED nodes
    /\ UNCHANGED <<edges, pre, last, calls>>

\* source_node_data.edges_from = ...; self.update_node(source_uid, source_node_data)
WriteSourceFrom(p) ==
    /\ procs[p].pc = "write_source_from"
    /\ LET copy == [procs[p].source_node_data EXCEPT
                        !.edges_from = AdjAdd(@, procs[p].target_uid)]
       IN  IF node_exist(nodes, procs[p].source_uid)
           THEN /\ nodes' = update_node(nodes, procs[p].source_uid, copy)
                /\ procs' = [procs EXCEPT ![p].pc = "write_reverse_edge",
                                          ![p].source_node_data = copy]
           ELSE /\ Raise(p, KeyError)
                /\ UNCHANGED nodes
    /\ UNCHANGED <<edges, pre, last, calls>>

\* self._update_egde_coll(reverse_edge_uid, ...)
WriteReverseEdge(p) ==
    /\ procs[p].pc = "write_reverse_edge"
    /\ edges' = ReverseEdgeColl(edges, procs[p].source_uid, procs[p].target_uid,
                                procs[p].description, procs[p].directed)
    /\ Goto(p, "done")
    /\ UNCHANGED <<nodes, pre, last, calls>>

NextRace ==
    \/ RaceAddNode
    \/ \E p \in Procs :
        \/ Begin(p)
        \/ CheckSource(p)
        \/ CheckTarget(p)
        \/ ReadSource(p)
        \/ ReadTarget(p)
        \/ WriteSourceTo(p)
        \/ WriteTargetFrom(p)
        \/ WriteEdge(p)
        \/ WriteTargetTo(p)
        \/ WriteSourceFrom(p)
        \/ WriteReverseEdge(p)

SpecRace == Init /\ [][NextRace]_vars

----------------------------------------------------------------------------
\* clean_zerodegree_nodes step by step, side by side with one add_edge.  The
\* stream over the node collection is one step; after it every read, write
\* and delete of remove_node is one step.  The nodes found by the scan are
\* removed in any order.

\* the caller of add_edge and the caller of clean_zerodegree_nodes
Adder == "p1"

Cleaner == "p2"

\* The add_edge of p has read its two nodes, or has got further.
PastCheck(p) ==
    \/ procs[p].pc \in {"read_source", "read_target", "write_source_to",
                        "write_target_from", "write_edge", "write_target_to",
                        "write_source_from", "write_reverse_edge", "done"}
    \/ /\ procs[p].pc = "raised"
       /\ procs[p].source_node_data # NoData

\* scanned is the node collection as the stream returned it; removed is the
\* set of the uids deleted so far, removed_late those of them that were
\* deleted when the add_edge naming them was past its two existence checks.
BeginClean(p) ==
    /\ procs[p].pc = "idle"
    /\ procs' = [procs EXCEPT ![p] =
                    [pc |-> "scan", nodes_to_remove |-> {}, node_uid |-> <<>>,
                     node_data |-> NoData, remaining |-> {}, other_uid |-> <<>>,
                     other_node_data |-> NoData, scanned |-> <<>>, removed |-> {},
                     removed_late |-> {}, err |-> OK]]
    /\ UNCHANGED <<nodes, edges, pre, last, calls>>

\* for doc in nodes_ref: ... nodes_to_remove.append(doc.id)
Scan(p) ==
    /\ procs[p].pc = "scan"
    /\ procs' = [procs EXCEPT
                    ![p].pc = IF ZeroDegreeNodes(nodes) = {} THEN "done" ELSE "remove_check",
                    ![p].nodes_to_remove = ZeroDegreeNodes(nodes),
                    ![p].scanned = nodes]
    /\ UNCHANGED <<nodes, edges, pre, last, calls>>

\* for node_uid in nodes_to_remove: remove_node: if not doc_ref.get().exists
RemoveCheck(p) ==
    /\ procs[p].pc = "remove_check"
    /\ \E u \in procs[p].nodes_to_remove :
        IF node_exist(nodes, u)
        THEN procs' = [procs EXCEPT ![p].pc = "remove_read",
                                    ![p].nodes_to_remove = @ \ {u},
                                    ![p].node_uid = u]
        ELSE Raise(p, KeyError)
    /\ UNCHANGED <<nodes, edges, pre, last, calls>>

\* node_data = self.get_node(node_uid)
RemoveRead(p) ==
    /\ procs[p].pc = "remove_read"
    /\ IF node_exist(nodes, procs[p].node_uid)
       THEN procs' = [procs EXCEPT ![p].pc = "strip_to_read",
                                   ![p].node_data = nodes[procs[p].node_uid],
                                   ![p].remaining = nodes[procs[p].node_uid].edges_from]
       ELSE Raise(p, KeyError)
    /\ UNCHANGED <<nodes, edges, pre, last, calls>>

\* for other_node_uid in node_data.edges_from: other_node_data = get_node(..),
\* its edges_to without node_uid; a KeyError ends this round of the loop
StripToRead(p) ==
    /\ procs[p].pc = "strip_to_read"
    /\ IF procs[p].remaining = {}
       THEN procs' = [procs EXCEPT ![p].pc = "strip_from_read",
                                   ![p].remaining = procs[p].node_data.edges_to]
       ELSE \E other \in procs[p].remaining :
                IF node_exist(nodes, other)
                THEN procs' = [procs EXCEPT
                        ![p].pc = "strip_to_write",
                        ![p].remaining = @ \ {other},
                        ![p].other_uid = other,
                        ![p].other_node_data =
                            [nodes[other] EXCEPT
                                !.edges_to = {edge \in @ : edge # procs[p].node_uid}]]
                ELSE procs' = [procs EXCEPT ![p].remaining = @ \ {other}]
    /\ UNCHANGED <<nodes, edges, pre, last, calls>>

\* self.update_node(other_node_uid, other_node_data)
StripToWrite(p) ==
    /\ procs[p].pc = "strip_to_write"
    /\ nodes' = IF node_exist(nodes, procs[p].other_uid)
                THEN update_node(nodes, procs[p].other_uid, procs[p].other_node_data)
                ELSE nodes
    /\ Goto(p, "strip_to_read")
    /\ UNCHANGED <<edges, pre, last, calls>>

\* for other_node_uid in node_data.edges_to: the same on edges_from
StripFromRead(p) ==
    /\ procs[p].pc = "strip_from_read"
    /\ IF procs[p].remaining = {}
       THEN Goto(p, "delete")
       ELSE \E other \in procs[p].remaining :
                IF node_exist(nodes, other)
                THEN procs' = [procs EXCEPT
                        ![p].pc = "strip_from_write",
                        ![p].remaining = @ \ {other},
                        ![p].other_uid = other,
                        ![p].other_node_data =
                            [nodes[other] EXCEPT
                                !.edges_from = {edge \in @ : edge # procs[p].node_uid}]]
                ELSE procs' = [procs EXCEPT ![p].remaining = @ \ {other}]
    /\ UNCHANGED <<nodes, edges, pre, last, calls>>

\* self.update_node(other_node_uid, other_node_data)
StripFromWrite(p) ==
    /\ procs[p].pc = "strip_from_write"
    /\ nodes' = IF node_exist(nodes, procs[p].other_uid)
                THEN update_node(nodes, procs[p].other_uid, procs[p].other_node_data)
                ELSE nodes
    /\ Goto(p, "strip_from_read")
    /\ UNCHANGED <<edges, pre, last, calls>>

\* doc_ref.delete(), and on to the next node of nodes_to_remove
Delete(p) ==
    /\ procs[p].pc = "delete"
    /\ nodes' = DocDelete(nodes, procs[p].node_uid)
    /\ procs' = [procs EXCEPT
                    ![p].pc = IF procs[p].nodes_to_remove = {} THEN "done"
                              ELSE "remove_check",
                    ![p].removed = @ \cup {procs[p].node_uid},
                    ![p].removed_late =
                        IF /\ PastCheck(Adder)
                           /\ procs[p].node_uid \in {procs[Adder].source_uid,
                                                     procs[Adder].target_uid}
                        THEN @ \cup {procs[p].node_uid}
                        ELSE @]
    /\ UNCHANGED <<edges, pre, last, calls>>

NextClean ==
    \/ RaceAddNode
    \/ Begin(Adder)
    \/ BeginClean(Cleaner)
    \/ CheckSource(Adder)
    \/ CheckTarget(Adder)
    \/ ReadSource(Adder)
    \/ ReadTarget(Adder)
    \/ WriteSourceTo(Adder)
    \/ WriteTargetFrom(Adder)
    \/ WriteEdge(Adder)
    \/ WriteTargetTo(Adder)
    \/ WriteSourceFrom(Adder)
    \/ WriteReverseEdge(Adder)
    \/ Scan(Cleaner)
    \/ RemoveCheck(Cleaner)
    \/ RemoveRead(Cleaner)
    \/ StripToRead(Cleaner)
    \/ StripToWrite(Cleaner)
    \/ StripFromRead(Cleaner)
    \/ StripFromWrite(Cleaner)
    \/ Delete(Cleaner)

SpecClean == Init /\ [][NextClean]_vars

----------------------------------------------------------------------------
\* add_edge stopped by a failure of the store.  Every read and write of
\* add_edge is a request to the store, and only ValueError is caught: an error
\* raised by the store at any request leaves the call with the writes made
\* so far and propagates to the caller.

StoreError == "StoreError"

add_edge_writes_RecordFirst(n, e, source_uid, target_uid, description, directed) ==
    LET source0 == n[source_uid]
        target0 == n[target_uid]
        e1 == _update_egde_coll(e, source_uid, target_uid, description, directed)
        source1 == [source0 EXCEPT !.edges_to = AdjAdd(@, target_uid)]
        n1 == update_node(n, source_uid, source1)
        target1 == [target0 EXCEPT !.edges_from = AdjAdd(@, source_uid)]
        n2 == update_node(n1, target_uid, target1)
        e2 == ReverseEdgeColl(e1, source_uid, target_uid, description, directed)
        target2 == [target1 EXCEPT !.edges_to = AdjAdd(@, source_uid)]
        n3 == update_node(n2, target_uid, target2)
        source2 == [source1 EXCEPT !.edges_from = AdjAdd(@, target_uid)]
        n4 == update_node(n3, source_uid, source2)
        forward == << [nodes |-> n, edges |-> e], [nodes |-> n, edges |-> e1],
                      [nodes |-> n1, edges |-> e1], [nodes |-> n2, edges |-> e1] >>
        reverse == << [nodes |-> n2, edges |-> e2], [nodes |-> n3, edges |-> e2],
                      [nodes |-> n4, edges |-> e2] >>
    IN  IF directed THEN forward ELSE forward \o reverse

\* The store before the first write of add_edge and after each of its writes,
\* in the order add_edge makes them; both endpoints exist.
add_edge_writes(n, e, source_uid, target_uid, description, directed) ==
    LET source0 == n[source_uid]
        target0 == n[target_uid]
        source1 == [source0 EXCEPT !.edges_to = AdjAdd(@, target_uid)]
        n1 == update_node(n, source_uid, source1)
        target1 == [target0 EXCEPT !.edges_from = AdjAdd(@, source_uid)]
        n2 == update_node(n1, target_uid, target1)
        e1 == _update_egde_coll(e, source_uid, target_uid, description, directed)
        target2 == [target1 EXCEPT !.edges_to = AdjAdd(@, source_uid)]
        n3 == update_node(n2, target_uid, target2)
        source2 == [source1 EXCEPT !.edges_from = AdjAdd(@, target_uid)]
        n4 == update_node(n3, source_uid, source2)
        e2 == ReverseEdgeColl(e1, source_uid, target_uid, description, directed)
        forward == << [nodes |-> n, edges |-> e], [nodes |-> n1, edges |-> e],
                      [nodes |-> n2, edges |-> e], [nodes |-> n2, edges |-> e1] >>
        reverse == << [nodes |-> n3, edges |-> e1], [nodes |-> n4, edges |-> e1],
                      [nodes |-> n4, edges |-> e2] >>
    IN  IF directed THEN forward ELSE forward \o reverse

\* the number of writes of a complete add_edge
add_edge_total(directed) == IF directed THEN 3 ELSE 6

\* add_edge whose request number writes + 1 to write to the store fails
add_edge_interrupted(n, e, source_uid, target_uid, description, directed, writes) ==
    IF ~node_exist(n, source_uid) \/ ~node_exist(n, target_uid) THEN Result(n, e, KeyError)
    ELSE
    LET after == add_edge_writes(n, e, source_uid, target_uid, description, directed)[writes + 1]
    IN  Result(after.nodes, after.edges, StoreError)

DoAddEdgeInterrupted ==
    \E s \in Uids, t \in Uids, d \in Descriptions, dir \in BOOLEAN :
        \E writes \in 0 .. (add_edge_total(dir) - 1) :
            Finish(add_edge_interrupted(nodes, edges, s, t, d, dir, writes),
                   [op |-> "add_edge", source_uid |-> s, target_uid |-> t,
                    description |-> d, directed |-> dir, writes |-> writes, err |-> OK])

\* The caller of an add_edge that the store stopped calls add_edge again with
\* the same edge data; original is the store the stopped call started from.
DoAddEdgeRetry ==
    /\ last.op = "add_edge"
    /\ last.err = StoreError
    /\ Finish(add_edge(nodes, edges, last.source_uid, last.target_uid,
                       last.description, last.directed),
              [op |-> "add_edge_retry", source_uid |-> last.source_uid,
               target_uid |-> last.target_uid, description |-> last.description,
               directed |-> last.directed, writes |-> last.writes,
               original |-> pre, err |-> OK])

\* the number of calls in a run with stopped calls
MaxFailCalls == 5

\* add_node, add_edge and remove_edge, with add_edge calls that the store stops
NextFail ==
    \/ calls < MaxFailCalls /\ DoAddNode
    \/ calls < MaxFailCalls /\ DoAddEdge
    \/ calls < MaxFailCalls /\ DoRemoveEdge
    \/ calls < MaxFailCalls /\ DoAddEdgeInterrupted
    \/ calls < MaxFailCalls /\ DoAddEdgeRetry

SpecFail == Init /\ [][NextFail]_vars

----------------------------------------------------------------------------
\* add_node and update_node called with node data of the caller's choice

\* The attribute bags update_node is called with.
Attrs == {"a1", "a2"}

\* update_node as a call of its own: KeyError when the node has no document
update_node_call(n, e, node_uid, node_data) ==
    IF ~node_exist(n, node_uid) THEN Result(n, e, KeyError)
    ELSE Result(update_node(n, node_uid, node_data), e, OK)

DoAddNodeData ==
    \E u \in Uids, a \in NewAttrs, to \in AdjInputs, from \in AdjInputs :
        Finish(add_node(nodes, edges, u, NodeData(a, to, from)),
               [op |-> "add_node", node_uid |-> u, node_data |-> NodeData(a, to, from),
                err |-> OK])

DoUpdateNode ==
    \E u \in Uids, a \in Attrs, to \in AdjInputs, from \in AdjInputs :
        Finish(update_node_call(nodes, edges, u, NodeData(a, to, from)),
               [op |-> "update_node", node_uid |-> u, node_data |-> NodeData(a, to, from),
                err |-> OK])

\* the number of calls in a run with update_node
MaxDataCalls == 5

\* add_node, update_node, add_edge and remove_node
NextData ==
    \/ calls < MaxDataCalls /\ DoAddNodeData
    \/ calls < MaxDataCalls /\ DoUpdateNode
    \/ calls < MaxDataCalls /\ DoAddEdge
    \/ calls < MaxDataCalls /\ DoRemoveNode

SpecData == Init /\ [][NextData]_vars

----------------------------------------------------------------------------
\* _generate_edge_uid on uids of any characters

\* The characters of the uids: the ones the delimiter is made of.
Alphabet == {"_", "t", "o"}

\* The longest uid.
MaxUidLen == 4

\* the non-empty uids of up to MaxUidLen characters
UidStrings == UNION {[1 .. k -> Alphabet] : k \in 1 .. MaxUidLen}

\* what _generate_edge_uid puts between the two uids
Delimiter == <<"_", "t", "o", "_">>

InitIds ==
    /\ nodes = <<>>
    /\ edges = <<>>
    /\ pre = [nodes |-> <<>>, edges |-> <<>>]
    /\ last \in {[op |-> "uids", source_uid |-> s, target_uid |-> t, err |-> OK] :
                    s \in UidStrings, t \in UidStrings}
    /\ calls = 0
    /\ procs = [p \in Procs |-> Idle]

GenerateEdgeUid ==
    /\ last.op = "uids"
    /\ last' = [op |-> "_generate_edge_uid", source_uid |-> last.source_uid,
                target_uid |-> last.target_uid,
                edge_uid |-> _generate_edge_uid(last.source_uid, last.target_uid),
                err |-> OK]
    /\ UNCHANGED <<nodes, edges, pre, calls, procs>>

SpecIds == InitIds /\ [][GenerateEdgeUid]_vars

----------------------------------------------------------------------------
\* Properties

\* t is in s's edges_to and s is in t's edges_from, in the node collection n
HasAdjacency(n, s, t) ==
    /\ node_exist(n, s) /\ node_exist(n, t)
    /\ t \in n[s].edges_to
    /\ s \in n[t].edges_from

\* the edge record (s, t) of the edge collection e
EdgeRecord(e, s, t) == e[_generate_edge_uid(s, t)]

\* The last call was an add_edge that returned.
AddedEdge == last.op = "add_edge" /\ last.err = OK

\* The last call was a remove_node that returned.
RemovedNode == last.op = "remove_node" /\ last.err = OK

\* C1: after any sequence of complete add_node, add_edge and remove_edge calls,
\* every edge record (s, t) has t in s.edges_to and s in t.edges_from.
C1_EdgeRecordHasAdjacency ==
    \A s \in Uids, t \in Uids : edge_exist(edges, s, t) => HasAdjacency(nodes, s, t)

\* C2: after any sequence of complete add_node, add_edge and remove_edge calls,
\* every edge record (s, t) with directed = false comes with s in t.edges_to,
\* t in s.edges_from and an edge record (t, s).
C2_UndirectedRecordHasReverse ==
    \A s \in Uids, t \in Uids :
        (edge_exist(edges, s, t) /\ ~EdgeRecord(edges, s, t).directed)
            => (HasAdjacency(nodes, t, s) /\ edge_exist(edges, t, s))

\* source and target are not connected in n, e: no record, no adjacency entry
NotConnected(n, e, s, t) ==
    /\ ~edge_exist(e, s, t)
    /\ t \notin n[s].edges_to
    /\ s \notin n[t].edges_from

\* C3: after add_edge(directed = true) on existing nodes that were not
\* connected, whether or not the two uids differ, target is in source.edges_to,
\* source is in target.edges_from and the edge record exists with
\* directed = true.
C3_DirectedAddEdge ==
    (/\ AddedEdge
     /\ last.directed
     /\ NotConnected(pre.nodes, pre.edges, last.source_uid, last.target_uid))
        => /\ HasAdjacency(nodes, last.source_uid, last.target_uid)
           /\ edge_exist(edges, last.source_uid, last.target_uid)
           /\ EdgeRecord(edges, last.source_uid, last.target_uid).directed

\* C4: after add_edge(directed = false) on existing nodes, each node lists the
\* other in edges_to and in edges_from, and the records (source, target) and
\* (target, source) both exist with directed = false.
C4_UndirectedAddEdge ==
    (AddedEdge /\ ~last.directed)
        => /\ HasAdjacency(nodes, last.source_uid, last.target_uid)
           /\ HasAdjacency(nodes, last.target_uid, last.source_uid)
           /\ edge_exist(edges, last.source_uid, last.target_uid)
           /\ edge_exist(edges, last.target_uid, last.source_uid)
           /\ ~EdgeRecord(edges, last.source_uid, last.target_uid).directed
           /\ ~EdgeRecord(edges, last.target_uid, last.source_uid).directed

\* an undirected add_edge on two nodes, neither record there before
C4_Witness ==
    /\ AddedEdge /\ ~last.directed
    /\ last.source_uid # last.target_uid
    /\ ~edge_exist(pre.edges, last.source_uid, last.target_uid)
    /\ ~edge_exist(pre.edges, last.target_uid, last.source_uid)

\* remove_edge(source, target) run right after the add_edge that was the last call
RoundTrip == remove_edge(nodes, edges, last.source_uid, last.target_uid)

\* the edge records the last call created
Created == DOMAIN edges \ DOMAIN pre.edges

\* the ids add_edge writes: the forward one, and the reverse one if undirected
Written ==
    {_generate_edge_uid(last.source_uid, last.target_uid)}
        \cup (IF last.directed THEN {}
              ELSE {_generate_edge_uid(last.target_uid, last.source_uid)})

\* both endpoints have the adjacency they had before the last call
AdjacencyRestored(n) ==
    \A u \in {last.source_uid, last.target_uid} :
        /\ n[u].edges_to = pre.nodes[u].edges_to
        /\ n[u].edges_from = pre.nodes[u].edges_from

\* C5 as stated: from any state and for any pair of existing nodes,
\* remove_edge right after a successful add_edge restores the adjacency of
\* both nodes and removes exactly the records add_edge created, 1 if directed
\* and 2 if not, leaving the other records in place.
C5_RoundTripAnyState ==
    AddedEdge
        => /\ AdjacencyRestored(RoundTrip.nodes)
           /\ Cardinality(Created) = (IF last.directed THEN 1 ELSE 2)
           /\ DOMAIN RoundTrip.edges = DOMAIN edges \ Created
           /\ \A k \in DOMAIN RoundTrip.edges : RoundTrip.edges[k] = edges[k]

\* nothing add_edge writes was there before the last call
FreshPair ==
    /\ NotConnected(pre.nodes, pre.edges, last.source_uid, last.target_uid)
    /\ ~last.directed
        => NotConnected(pre.nodes, pre.edges, last.target_uid, last.source_uid)

\* C5 amended: when nothing add_edge writes was there before (no record and
\* no adjacency entry for the pair, in both directions if undirected) and the
\* call is not a directed add_edge of a node to itself, remove_edge right after
\* it returns, both collections are as before the add_edge, and the records
\* removed are the ones add_edge created.
C5_RoundTripFreshPair ==
    (/\ AddedEdge
     /\ FreshPair
     /\ (last.source_uid # last.target_uid \/ ~last.directed))
        => /\ RoundTrip.err = OK
           /\ RoundTrip.nodes = pre.nodes
           /\ RoundTrip.edges = pre.edges
           /\ Created = Written

\* an undirected add_edge of a fresh pair, with other records in the collection
C5_Witness ==
    /\ AddedEdge /\ FreshPair /\ ~last.directed
    /\ last.source_uid # last.target_uid
    /\ DOMAIN pre.edges # {}
    /\ Cardinality(Created) = 2

\* C6: add_edge called again with the same data right after it returned leaves
\* every node and the edge collection as the first call left them.
C6_AddEdgeIdempotent ==
    AddedEdge
        => add_edge(nodes, edges, last.source_uid, last.target_uid,
                    last.description, last.directed)
           = Result(nodes, edges, OK)

\* an add_edge that changed a node
C6_Witness == AddedEdge /\ nodes # pre.nodes

\* C7: after remove_node(uid), in a store built by add_node, add_edge,
\* remove_edge and remove_node, the node is gone and no node left has uid in
\* its edges_to or edges_from.
C7_RemoveNodeStripsNeighbours ==
    RemovedNode
        => /\ ~node_exist(nodes, last.node_uid)
           /\ \A u \in DOMAIN nodes :
                last.node_uid \notin nodes[u].edges_to \cup nodes[u].edges_from

\* the removed node had an edge to and an edge from nodes that are still there
C7_Witness ==
    /\ RemovedNode
    /\ \E u \in DOMAIN nodes, v \in DOMAIN nodes :
        /\ last.node_uid \in pre.nodes[u].edges_to
        /\ last.node_uid \in pre.nodes[v].edges_from

\* C8: remove_node leaves the edge collection as it was: every record that
\* was there, those of the removed node included, is still there unchanged.
C8_RemoveNodeKeepsEdgeRecords ==
    last.op = "remove_node"
        => /\ edges = pre.edges
           /\ \A s \in Uids, t \in Uids :
                edge_exist(pre.edges, s, t) => edge_exist(edges, s, t)

\* a node was removed and a record naming it is still in the edge collection
C8_Witness ==
    /\ RemovedNode
    /\ \E t \in Uids :
        edge_exist(edges, last.node_uid, t) \/ edge_exist(edges, t, last.node_uid)

\* C9: clean_zerodegree_nodes removes exactly the nodes whose edges_to and
\* edges_from were both empty; every other node record and every edge record
\* is as before.
C9_CleanRemovesExactlyZeroDegree ==
    last.op = "clean_zerodegree_nodes"
        => /\ last.err = OK
           /\ DOMAIN nodes =
                {u \in DOMAIN pre.nodes :
                    pre.nodes[u].edges_to # {} \/ pre.nodes[u].edges_from # {}}
           /\ \A u \in DOMAIN nodes : nodes[u] = pre.nodes[u]
           /\ edges = pre.edges

\* the scan removed a node and left another
C9_Witness ==
    /\ last.op = "clean_zerodegree_nodes"
    /\ DOMAIN nodes # {}
    /\ DOMAIN nodes # DOMAIN pre.nodes

\* Two add_edge calls that returned, with the same source and two targets, the
\* three uids distinct.
SharedSource(p, q) ==
    /\ p # q
    /\ procs[p].pc = "done" /\ procs[q].pc = "done"
    /\ procs[p].source_uid = procs[q].source_uid
    /\ procs[p].target_uid # procs[q].target_uid
    /\ procs[p].source_uid \notin {procs[p].target_uid, procs[q].target_uid}

\* C10: when two add_edge calls with a shared source have both returned,
\* both edge records are written and the source holds at least one of the two
\* targets in edges_to; when it lacks the target of one call, its document is
\* the copy the other call wrote last.
C10_LastWriteWins ==
    \A p \in Procs, q \in Procs :
        SharedSource(p, q)
            => /\ edge_exist(edges, procs[p].source_uid, procs[p].target_uid)
               /\ edge_exist(edges, procs[q].source_uid, procs[q].target_uid)
               /\ \/ procs[p].target_uid \in nodes[procs[p].source_uid].edges_to
                  \/ procs[q].target_uid \in nodes[procs[p].source_uid].edges_to
               /\ procs[p].target_uid \notin nodes[procs[p].source_uid].edges_to
                    => nodes[procs[p].source_uid] = procs[q].source_node_data

\* the lost update: both calls returned, both records are there, and the
\* shared source lists only one of the two targets
C10_Witness ==
    \E p \in Procs, q \in Procs :
        /\ SharedSource(p, q)
        /\ edge_exist(edges, procs[p].source_uid, procs[p].target_uid)
        /\ edge_exist(edges, procs[q].source_uid, procs[q].target_uid)
        /\ procs[p].target_uid \notin nodes[procs[p].source_uid].edges_to
        /\ procs[q].target_uid \in nodes[procs[p].source_uid].edges_to


\* add_edge(s, t) was stopped by the store and then called again with the
\* same data, on two nodes
Retried ==
    /\ last.op = "add_edge_retry"
    /\ last.source_uid # last.target_uid

\* C11: when an add_edge on two existing nodes is stopped by the store after
\* any number of its writes and add_edge is then called again with the same
\* data, the second call completes and leaves the adjacency lists and the edge
\* collection exactly as one uninterrupted add_edge on the original store
\* leaves them.
C11_RetryEqualsUninterrupted ==
    Retried =>
        LET once == add_edge(last.original.nodes, last.original.edges, last.source_uid,
                             last.target_uid, last.description, last.directed)
        IN  /\ last.err = OK
            /\ nodes = once.nodes
            /\ edges = once.edges

\* an undirected add_edge stopped between its forward and its reverse half,
\* then retried
C11_Witness ==
    /\ Retried
    /\ ~last.directed
    /\ last.writes = 4
    /\ pre.nodes # last.original.nodes
    /\ nodes # pre.nodes

\* every edge record of the store e has its adjacency entries in n
Consistent(n, e) ==
    \A id \in DOMAIN e : HasAdjacency(n, e[id].source_uid, e[id].target_uid)

\* a directed add_edge(s, t) on two existing nodes, stopped or not, that
\* started from a consistent store
DirectedAddFromConsistent ==
    /\ last.op = "add_edge"
    /\ last.err \in {OK, StoreError}
    /\ last.directed
    /\ last.source_uid # last.target_uid
    /\ Consistent(pre.nodes, pre.edges)

\* C20: at whatever write a directed add_edge(s, t) on two nodes stops, having
\* started from a consistent store, the edge record (s, t) exists only if t is
\* in s's edges_to and s is in t's edges_from: the record is written after both.
C20_RecordAfterAdjacency ==
    DirectedAddFromConsistent =>
        (edge_exist(edges, last.source_uid, last.target_uid)
            => HasAdjacency(nodes, last.source_uid, last.target_uid))

\* stopped after the first write: the source lists the target and there is
\* no record yet
C20_Witness ==
    /\ DirectedAddFromConsistent
    /\ last.err = StoreError
    /\ last.writes = 1
    /\ last.target_uid \in nodes[last.source_uid].edges_to
    /\ ~edge_exist(edges, last.source_uid, last.target_uid)


\* C13: add_edge with a source or a target that has no node record raises
\* KeyError and writes nothing: every node record and the edge collection are
\* as before the call.
C13_AddEdgeMissingNode ==
    (/\ last.op = "add_edge"
     /\ \/ ~node_exist(pre.nodes, last.source_uid)
        \/ ~node_exist(pre.nodes, last.target_uid))
    => /\ last.err = KeyError
       /\ nodes = pre.nodes
       /\ edges = pre.edges

\* the source exists, the target does not, and the store holds an edge already
C13_Witness ==
    /\ last.op = "add_edge"
    /\ node_exist(pre.nodes, last.source_uid)
    /\ ~node_exist(pre.nodes, last.target_uid)
    /\ pre.edges # <<>>
    /\ last.err = KeyError

\* remove_edge(s, t) was called where the record (s, t) and both nodes exist
\* but t is not in s's edges_to or s is not in t's edges_from
RemoveEdgeOnMissingEntry ==
    /\ last.op = "remove_edge"
    /\ edge_exist(pre.edges, last.source_uid, last.target_uid)
    /\ node_exist(pre.nodes, last.source_uid)
    /\ node_exist(pre.nodes, last.target_uid)
    /\ \/ last.target_uid \notin pre.nodes[last.source_uid].edges_to
       \/ last.source_uid \notin pre.nodes[last.target_uid].edges_from

UpdatedEdge ==
    /\ last.op = "update_edge"
    /\ last.err = OK

\* C15: an update_edge that returns overwrites the one record of its edge id,
\* leaves t in s's edges_to and s in t's edges_from, removes no entry from any
\* edges_to or edges_from, creates and deletes no node, and creates, changes
\* and deletes no other edge record.
C15_UpdateEdgeAdditive ==
    UpdatedEdge =>
        LET edge_uid == _generate_edge_uid(last.source_uid, last.target_uid)
        IN  /\ edge_uid \in DOMAIN pre.edges
            /\ edges = _update_egde_coll(pre.edges, last.source_uid, last.target_uid,
                                         last.description, last.directed)
            /\ DOMAIN edges = DOMAIN pre.edges
            /\ \A id \in DOMAIN edges \ {edge_uid} : edges[id] = pre.edges[id]
            /\ HasAdjacency(nodes, last.source_uid, last.target_uid)
            /\ DOMAIN nodes = DOMAIN pre.nodes
            /\ \A u \in DOMAIN pre.nodes :
                /\ pre.nodes[u].edges_to \subseteq nodes[u].edges_to
                /\ pre.nodes[u].edges_from \subseteq nodes[u].edges_from
                /\ nodes[u].attr = pre.nodes[u].attr

\* the source had another entry and not yet the target: the entry is kept and
\* the target is added
C15_Witness ==
    /\ UpdatedEdge
    /\ pre.nodes[last.source_uid].edges_to # {}
    /\ last.target_uid \notin pre.nodes[last.source_uid].edges_to
    /\ edges # pre.edges


\* C16: add_node raises ValueError when the uid has a node record, and when
\* the node data carries a non-empty edges_to or edges_from; the store is then
\* unchanged.  A node that add_node creates has both lists empty.
C16_AddNodeRejects ==
    last.op = "add_node" =>
        /\ (\/ node_exist(pre.nodes, last.node_uid)
            \/ last.node_data.edges_to # {}
            \/ last.node_data.edges_from # {})
           => /\ last.err = ValueError
              /\ nodes = pre.nodes
              /\ edges = pre.edges
        /\ last.err = OK
           => /\ ~node_exist(pre.nodes, last.node_uid)
              /\ nodes[last.node_uid].edges_to = {}
              /\ nodes[last.node_uid].edges_from = {}

\* a new uid with a non-empty edges_from is rejected
C16_Witness ==
    /\ last.op = "add_node"
    /\ ~node_exist(pre.nodes, last.node_uid)
    /\ last.node_data.edges_to = {}
    /\ last.node_data.edges_from # {}
    /\ pre.nodes # <<>>
    /\ last.err = ValueError

\* C17: update_node changes the edges_to and the edges_from of no node,
\* whatever its data carries, and leaves the edge collection alone.
C17_UpdateNodeKeepsAdjacency ==
    last.op = "update_node" =>
        /\ edges = pre.edges
        /\ DOMAIN nodes = DOMAIN pre.nodes
        /\ \A u \in DOMAIN nodes :
            /\ nodes[u].edges_to = pre.nodes[u].edges_to
            /\ nodes[u].edges_from = pre.nodes[u].edges_from

\* remove_node(uid) was called on an existing node
RemovedExistingNode ==
    /\ last.op = "remove_node"
    /\ node_exist(pre.nodes, last.node_uid)

\* the uids in the lists of the node that have no node record
MissingNeighbours ==
    {u \in pre.nodes[last.node_uid].edges_to \cup pre.nodes[last.node_uid].edges_from :
        ~node_exist(pre.nodes, u)}

\* C19: remove_node on a node whose edges_from or edges_to lists uids without
\* a node record returns without error, takes the node's uid out of the
\* edges_to of every existing node of its edges_from and out of the
\* edges_from of every existing node of its edges_to, changes nothing else
\* of the other nodes, and deletes the node.
C19_RemoveNodeSkipsMissing ==
    (RemovedExistingNode /\ MissingNeighbours # {}) =>
        /\ last.err = OK
        /\ DOMAIN nodes = DOMAIN pre.nodes \ {last.node_uid}
        /\ \A u \in DOMAIN nodes :
            /\ nodes[u].edges_to =
                   IF u \in pre.nodes[last.node_uid].edges_from
                   THEN pre.nodes[u].edges_to \ {last.node_uid}
                   ELSE pre.nodes[u].edges_to
            /\ nodes[u].edges_from =
                   IF u \in pre.nodes[last.node_uid].edges_to
                   THEN pre.nodes[u].edges_from \ {last.node_uid}
                   ELSE pre.nodes[u].edges_from

\* the node lists a missing uid and an existing node that lists it back
C19_Witness ==
    /\ RemovedExistingNode
    /\ MissingNeighbours # {}
    /\ \E u \in DOMAIN nodes :
        /\ u \in pre.nodes[last.node_uid].edges_to
        /\ last.node_uid \in pre.nodes[u].edges_from
        /\ last.node_uid \notin nodes[u].edges_from
    /\ last.err = OK


\* sub occurs in str at position i
OccursAt(str, sub, i) ==
    /\ i >= 1
    /\ i + Len(sub) - 1 <= Len(str)
    /\ SubSeq(str, i, i + Len(sub) - 1) = sub

Contains(str, sub) == \E i \in 1 .. Len(str) : OccursAt(str, sub, i)

EndsWith(str, sub) == OccursAt(str, sub, Len(str) - Len(sub) + 1)

StartsWith(str, sub) == OccursAt(str, sub, 1)

\* every way to cut the edge uid at an occurrence of the delimiter into two
\* non-empty uids: these are all the pairs of uids, of any length, that may
\* have the edge uid as theirs
Splits(edge_uid) ==
    {<<SubSeq(edge_uid, 1, i - 1), SubSeq(edge_uid, i + Len(Delimiter), Len(edge_uid))>> :
        i \in {k \in 2 .. Len(edge_uid) - Len(Delimiter) : OccursAt(edge_uid, Delimiter, k)}}

\* the pairs of uids allowed by Allowed(_) whose edge uid is edge_uid
Collisions(edge_uid, Allowed(_)) ==
    {p \in Splits(edge_uid) :
        /\ Allowed(p[1]) /\ Allowed(p[2])
        /\ _generate_edge_uid(p[1], p[2]) = edge_uid}

NoDelimiter(uid) == ~Contains(uid, Delimiter)

NoDelimiterNoTail(uid) ==
    /\ ~Contains(uid, Delimiter)
    /\ ~EndsWith(uid, <<"_", "t", "o">>)

NoDelimiterNoHead(uid) ==
    /\ ~Contains(uid, Delimiter)
    /\ ~StartsWith(uid, <<"t", "o", "_">>)

Generated == last.op = "_generate_edge_uid"

\* C18: when no uid contains "_to_", the edge uid of (s, t) is the edge uid
\* of no other pair of uids.
C18_CollisionFree ==
    (Generated /\ NoDelimiter(last.source_uid) /\ NoDelimiter(last.target_uid)) =>
        Collisions(last.edge_uid, NoDelimiter) = {<<last.source_uid, last.target_uid>>}

\* C18 amended: when no uid contains "_to_" and no uid ends with "_to", the
\* edge uid of (s, t) is the edge uid of no other pair of uids; the same when
\* no uid contains "_to_" and no uid begins with "to_".
C18_CollisionFreeNoOverlap ==
    Generated =>
        /\ (NoDelimiterNoTail(last.source_uid) /\ NoDelimiterNoTail(last.target_uid))
           => Collisions(last.edge_uid, NoDelimiterNoTail)
                  = {<<last.source_uid, last.target_uid>>}
        /\ (NoDelimiterNoHead(last.source_uid) /\ NoDelimiterNoHead(last.target_uid))
           => Collisions(last.edge_uid, NoDelimiterNoHead)
                  = {<<last.source_uid, last.target_uid>>}

\* an edge uid with the delimiter at two places, from uids that never end
\* with "_to"
C18_Witness ==
    /\ Generated
    /\ NoDelimiterNoTail(last.source_uid)
    /\ NoDelimiterNoTail(last.target_uid)
    /\ Cardinality(Splits(last.edge_uid)) = 2


\* uid has no node record, and an edges_to or edges_from of a node, or an edge
\* record, names it
Dangling(uid) ==
    /\ ~node_exist(nodes, uid)
    /\ \/ \E u \in DOMAIN nodes : uid \in nodes[u].edges_to \cup nodes[u].edges_from
       \/ \E id \in DOMAIN edges : uid \in {edges[id].source_uid, edges[id].target_uid}

\* clean_zerodegree_nodes is running or has run
Cleaning == procs[Cleaner].pc # "idle"

\* C12: clean_zerodegree_nodes removes only nodes that had no edge when it
\* scanned them, and when it runs beside an add_edge a uid without a node
\* record is named by an adjacency entry or an edge record only if it is an
\* endpoint of the add_edge that was removed after the add_edge had passed
\* its existence checks.
C12_DanglingOnlyAfterCheck ==
    Cleaning =>
        /\ \A u \in procs[Cleaner].removed :
            /\ procs[Cleaner].scanned[u].edges_to = {}
            /\ procs[Cleaner].scanned[u].edges_from = {}
        /\ \A u \in Uids : Dangling(u) => u \in procs[Cleaner].removed_late

\* both calls are over: the target, without an edge when scanned, was removed
\* after the existence checks of add_edge, and the existing source still
\* lists it or the edge record of the pair names it
C12_Witness ==
    /\ Cleaning
    /\ procs[Cleaner].pc = "done"
    /\ procs[Adder].pc \in {"done", "raised"}
    /\ procs[Adder].source_uid # procs[Adder].target_uid
    /\ procs[Adder].target_uid \in procs[Cleaner].removed_late
    /\ procs[Cleaner].scanned[procs[Adder].target_uid].edges_from = {}
    /\ ~node_exist(nodes, procs[Adder].target_uid)
    /\ node_exist(nodes, procs[Adder].source_uid)
    /\ \/ procs[Adder].target_uid \in nodes[procs[Adder].source_uid].edges_to
       \/ edge_exist(edges, procs[Adder].source_uid, procs[Adder].target_uid)


\* C21: after any sequence of complete add_node, add_edge, update_edge,
\* remove_edge, remove_node and clean_zerodegree_nodes calls, returned or
\* raised, for any two distinct existing nodes s and t, t is in s's edges_to
\* if and only if s is in t's edges_from.
C21_AdjacencyMirror ==
    \A s \in DOMAIN nodes, t \in DOMAIN nodes :
        s # t => (t \in nodes[s].edges_to <=> s \in nodes[t].edges_from)

\* C22: after any sequence of complete add_node, add_edge, update_edge,
\* remove_edge, remove_node and clean_zerodegree_nodes calls, returned or
\* raised, whenever t is in the edges_to of an existing node s, or s is in the
\* edges_from of an existing node t, the edge record (s, t) exists.
C22_AdjacencyEntryHasRecord ==
    \A s \in Uids, t \in Uids :
        (\/ node_exist(nodes, s) /\ t \in nodes[s].edges_to
         \/ node_exist(nodes, t) /\ s \in nodes[t].edges_from)
            => edge_exist(edges, s, t)

\* remove_edge(s, t) was called where the record (s, t) exists and s or t has
\* no node record
RemoveEdgeOnOrphan ==
    /\ last.op = "remove_edge"
    /\ edge_exist(pre.edges, last.source_uid, last.target_uid)
    /\ \/ ~node_exist(pre.nodes, last.source_uid)
       \/ ~node_exist(pre.nodes, last.target_uid)

\* C23: remove_edge(s, t) on an edge record (s, t) whose node s or node t does
\* not exist raises an exception and writes nothing: the node collection and
\* the edge collection are as before, the record (s, t) among them.
C23_OrphanRecordStays ==
    RemoveEdgeOnOrphan =>
        /\ last.err = WrappedException
        /\ nodes = pre.nodes
        /\ edges = pre.edges
        /\ edge_exist(edges, last.source_uid, last.target_uid)

\* the record was left behind by remove_node of the target, the source still
\* exists
C23_Witness ==
    /\ RemoveEdgeOnOrphan
    /\ last.source_uid # last.target_uid
    /\ node_exist(pre.nodes, last.source_uid)
    /\ ~node_exist(pre.nodes, last.target_uid)
    /\ last.err = WrappedException
    /\ edge_exist(edges, last.source_uid, last.target_uid)

====
